---- MODULE Spec2Model ----
(***************************************************************************)
(* The fetch-url tool handler of the MCP server (pod variant and job       *)
(* variant): create an execution unit, watch it with a deadline, read its  *)
(* log, clean up, return.  Each call is one instance of the async handler; *)
(* an action is one run-to-completion step of the JavaScript event loop    *)
(* (a callback together with the promise continuations it releases).       *)
(***************************************************************************)
EXTENDS Integers, FiniteSets, Sequences, TLC

(* ------------------------------ bounds -------------------------------- *)
MaxClock == 1      \* Date.now() readings 0..MaxClock
MaxEvents == 2     \* watch events delivered in a run, over all calls

\* Two calls, numbered in the order they start: the handler keeps its state in
\* locals, so calls meet only in the names they submit and in the cluster, and
\* every statement about concurrent calls is about a pair of them.
Calls == {1, 2}
Variants == {"pod", "job"}
Phases == {"Pending", "Running", "Succeeded", "Failed"}

(* --------------------------- values ----------------------------------- *)
\* `fetch-pod-${Date.now()}` / `fetch-job-${Date.now()}`; sfx is the suffix the
\* job controller appends to the pods it spawns (0: none).
MkName(prefix, t, sfx) == [prefix |-> prefix, t |-> t, sfx |-> sfx]
\* let podName = `` (job variant), and the name of a call not yet started
EmptyName == MkName("", 0, 0)

PodNameOf(t) == MkName("fetch-pod-", t, 0)
JobNameOf(t) == MkName("fetch-job-", t, 0)

\* the name a call submits: const podName (pod variant), const jobName (job variant)
UnitNameOf(v, t) == IF v = "pod" THEN PodNameOf(t) ELSE JobNameOf(t)

\* pods matched by the watch filter of a unit: fieldSelector metadata.name
\* (the pod itself) or labelSelector job-name (the pods the job spawned)
PodSuffixes == {1, 2}
MatchedPods(v, unit) ==
    IF v = "pod" THEN {unit}
    ELSE {MkName(unit.prefix, unit.t, s) : s \in PodSuffixes}

\* text values: the captured standard output of a pod, and the error text
NoText == [tag |-> "", of |-> EmptyName, err |-> ""]
CapturedOutput(pod) == [tag |-> "log", of |-> pod, err |-> ""]
\* html = `Error retrieving logs: ${err}`
ErrorText(err) == [tag |-> "Error retrieving logs: ", of |-> EmptyName, err |-> err]

\* the handler's outcome: nothing yet, a returned result, or a thrown error
NoOutcome == [kind |-> "none", text |-> NoText, err |-> ""]
Returned(text) == [kind |-> "return", text |-> text, err |-> ""]
Thrown(err) == [kind |-> "throw", text |-> NoText, err |-> err]

VARIABLES
    variant,     \* which server program runs: pod variant or job variant
    now,         \* last Date.now() reading
    pc,          \* per call: where the async handler is suspended
    unitName,    \* per call: podName (pod variant) / jobName (job variant)
    podName,     \* per call: the identity given to the log read and the delete
    requestRef,  \* per call: TRUE once the .then callback has stored the request
    timeout,     \* per call: the setTimeout timer: none, pending, fired, cleared
    promise,     \* per call: the watch promise: none, pending, resolved, rejected
    reason,      \* per call: the value the promise was rejected with
    watch,       \* per call: the watch request: none, connecting, open, aborted, closed, failed
    nEvents,     \* events delivered to watch callbacks so far
    preTerminal, \* per call: a non-terminal event came before the first terminal one
    nTerminal,   \* per call: events with phase Succeeded or Failed delivered
    firstPhase,  \* per call: the phase of the first terminal event
    firstName,   \* per call: the pod named by the first terminal event
    firstSeen,   \* per call: the pod named by the first event of any phase
    settledBy,   \* per call: the callback that settled the promise
    startedAt,   \* per call: the Date.now() reading the call started at
    createResult,\* per call: none, ok, or the error of the create request
    creates,     \* per call: create requests issued
    aborts,      \* per call: requestRef.abort() invocations
    reads,       \* per call: log reads issued
    readName,    \* per call: the name given to the log read
    readResult,  \* per call: none, ok, or the error of the log read
    deletes,     \* per call: delete requests issued
    delResult,   \* per call: none, ok, or the error of the delete
    cleanup,     \* per call: the cleanup try block was entered
    html,        \* per call: let html
    outcome,     \* per call: what the handler returned or threw
    units,       \* the cluster: names of the units that exist
    transports,  \* the session registry: the own keys of `transports`
    conn,        \* per session: its SSE connection: none, connecting, open, failed, closed
    post,        \* the last POST /messages: key, status answered, transport it went to
    wpc,         \* per worker process: where fetcher.js is
    argv,        \* per worker process: process.argv[2]
    browser,     \* per worker process: the puppeteer browser: none, open, closed
    stdout,      \* per worker process: what console.log wrote
    stderr,      \* per worker process: what console.error wrote
    raised,      \* per worker process: the error an awaited step raised
    exitCode     \* per worker process: the status given to process.exit

vars == <<variant, now, pc, unitName, podName, requestRef, timeout, promise,
          reason, watch, nEvents, preTerminal, nTerminal, firstPhase, firstName, firstSeen, settledBy,
          startedAt, createResult, creates, aborts, reads, readName, readResult, deletes, delResult, cleanup,
          html, outcome, units, transports, conn, post, wpc, argv, browser,
          stdout, stderr, raised, exitCode>>

server == <<transports, conn, post>>
worker == <<wpc, argv, browser, stdout, stderr, raised, exitCode>>

\* session ids given to transports (each new transport has a fresh one), and
\* the sessionId values a POST can carry: a session id, an id of no session,
\* and a name every object inherits from Object.prototype
Sessions == {"s1", "s2"}
InheritedKeys == {"constructor"}
PostKeys == Sessions \cup {"unknown"} \cup InheritedKeys
NoPost == [key |-> "", status |-> 0, to |-> "", wasOpen |-> FALSE]

\* const transports = {}; no SSE connection yet
InitServer ==
    /\ transports = {}
    /\ conn = [id \in Sessions |-> "none"]
    /\ post = NoPost

\* the worker processes: one node fetcher.js per unit of work
Workers == {1, 2}

\* process.argv[2]: absent, empty, or a URL
NoArg == "undefined"
Urls == {"https://example.com", "https://example.org"}
Args == {NoArg, ""} \cup Urls
\* what page.content() can give
Pages == {"<html>a</html>", "<html>b</html>"}
NoOutput == "none"

\* no worker process has been started
InitWorker ==
    /\ wpc = [w \in Workers |-> "off"]
    /\ argv = [w \in Workers |-> NoArg]
    /\ browser = [w \in Workers |-> "none"]
    /\ stdout = [w \in Workers |-> NoOutput]
    /\ stderr = [w \in Workers |-> NoOutput]
    /\ raised = [w \in Workers |-> NoOutput]
    /\ exitCode = [w \in Workers |-> -1]

Init ==
    /\ variant \in Variants
    /\ now = 0
    /\ pc = [c \in Calls |-> "idle"]
    /\ unitName = [c \in Calls |-> EmptyName]
    /\ podName = [c \in Calls |-> EmptyName]
    /\ requestRef = [c \in Calls |-> FALSE]
    /\ timeout = [c \in Calls |-> "none"]
    /\ promise = [c \in Calls |-> "none"]
    /\ reason = [c \in Calls |-> ""]
    /\ watch = [c \in Calls |-> "none"]
    /\ nEvents = 0
    /\ preTerminal = [c \in Calls |-> FALSE]
    /\ nTerminal = [c \in Calls |-> 0]
    /\ firstPhase = [c \in Calls |-> ""]
    /\ firstName = [c \in Calls |-> EmptyName]
    /\ firstSeen = [c \in Calls |-> EmptyName]
    /\ settledBy = [c \in Calls |-> ""]
    /\ startedAt = [c \in Calls |-> 0]
    /\ createResult = [c \in Calls |-> "none"]
    /\ creates = [c \in Calls |-> 0]
    /\ aborts = [c \in Calls |-> 0]
    /\ reads = [c \in Calls |-> 0]
    /\ readName = [c \in Calls |-> EmptyName]
    /\ readResult = [c \in Calls |-> "none"]
    /\ deletes = [c \in Calls |-> 0]
    /\ delResult = [c \in Calls |-> "none"]
    /\ cleanup = [c \in Calls |-> FALSE]
    /\ html = [c \in Calls |-> NoText]
    /\ outcome = [c \in Calls |-> NoOutcome]
    /\ units = {}
    /\ InitServer
    /\ InitWorker

(* ---------------------- pieces of the handler -------------------------- *)
IsTerminal(phase) == phase \in {"Succeeded", "Failed"}

\* mutant: one timer variable shared by all calls
ClearTimeoutShared(c) ==
    timeout' = [d \in Calls |-> IF timeout[d] = "pending" THEN "cleared" ELSE timeout[d]]

\* clearTimeout(timeout): cancels the timer if it has not fired yet
ClearTimeout(c) ==
    timeout' = [timeout EXCEPT ![c] = IF @ = "pending" THEN "cleared" ELSE @]

\* requestRef?.abort(): a no-op while requestRef is still undefined
AbortRequest(c) ==
    IF requestRef[c]
    THEN /\ aborts' = [aborts EXCEPT ![c] = @ + 1]
         /\ watch' = [watch EXCEPT ![c] = IF @ = "open" THEN "aborted" ELSE @]
    ELSE UNCHANGED <<aborts, watch>>

\* the statement after the awaited promise: readNamespacedPodLog({name: podName})
IssueLogRead(c) ==
    /\ pc' = [pc EXCEPT ![c] = "reading"]
    /\ reads' = [reads EXCEPT ![c] = @ + 1]
    /\ readName' = [readName EXCEPT ![c] = podName'[c]]
    /\ UNCHANGED outcome

\* the awaited promise rejected: the handler throws the rejection value
ThrowFromAwait(c, err) ==
    /\ pc' = [pc EXCEPT ![c] = "done"]
    /\ outcome' = [outcome EXCEPT ![c] = Thrown(err)]
    /\ UNCHANGED <<reads, readName>>

\* mutant: a resolve() that acts on a promise already settled
ResolveUnguarded(c) ==
    /\ promise' = [promise EXCEPT ![c] = "resolved"]
    /\ UNCHANGED reason
    /\ IssueLogRead(c)

\* resolve(): settles the promise if it is still pending, and the handler goes on
Resolve(c) ==
    IF promise[c] = "pending"
    THEN /\ promise' = [promise EXCEPT ![c] = "resolved"]
         /\ UNCHANGED reason
         /\ IssueLogRead(c)
    ELSE UNCHANGED <<promise, reason, pc, reads, readName, outcome>>

\* reject(err): settles the promise if it is still pending, and the handler throws
Reject(c, err) ==
    IF promise[c] = "pending"
    THEN /\ promise' = [promise EXCEPT ![c] = "rejected"]
         /\ reason' = [reason EXCEPT ![c] = err]
         /\ ThrowFromAwait(c, err)
    ELSE UNCHANGED <<promise, reason, pc, reads, readName, outcome>>

\* the promise executor: setTimeout(...), watchClient.watch(...)
OpenWatch(c) ==
    /\ pc' = [pc EXCEPT ![c] = "watching"]
    /\ timeout' = [timeout EXCEPT ![c] = "pending"]
    /\ watch' = [watch EXCEPT ![c] = "connecting"]
    /\ promise' = [promise EXCEPT ![c] = "pending"]
    /\ UNCHANGED <<creates, outcome>>

\* mutant: the catch block issues the create again
OnCreateErrorRetry(c, err) ==
    /\ creates' = [creates EXCEPT ![c] = @ + 1]
    /\ UNCHANGED <<pc, outcome, timeout, watch, promise>>

\* mutant: the catch block logs and falls through to the watch
OnCreateErrorFallThrough(c, err) == OpenWatch(c)

\* the catch block of the create request: logError, throw err
OnCreateError(c, err) ==
    /\ pc' = [pc EXCEPT ![c] = "done"]
    /\ outcome' = [outcome EXCEPT ![c] = Thrown(err)]
    /\ UNCHANGED <<creates, timeout, watch, promise>>

\* the cleanup try block and the return statement
\* pod variant: await deleteNamespacedPod; job variant: the block is empty
CleanupAndReturn(c) ==
    /\ cleanup' = [cleanup EXCEPT ![c] = TRUE]
    /\ IF variant = "pod"
       THEN /\ pc' = [pc EXCEPT ![c] = "deleting"]
            /\ deletes' = [deletes EXCEPT ![c] = @ + 1]
            /\ UNCHANGED outcome
       ELSE /\ pc' = [pc EXCEPT ![c] = "done"]
            /\ outcome' = [outcome EXCEPT ![c] = Returned(html'[c])]
            /\ UNCHANGED deletes

\* mutant: the catch block of the log read throws the error on
OnReadErrorRethrow(c, err) ==
    /\ pc' = [pc EXCEPT ![c] = "done"]
    /\ outcome' = [outcome EXCEPT ![c] = Thrown(err)]
    /\ UNCHANGED <<html, cleanup, deletes>>

\* the catch block of the log read: html = `Error retrieving logs: ${err}`
OnReadError(c, err) ==
    /\ html' = [html EXCEPT ![c] = ErrorText(err)]
    /\ CleanupAndReturn(c)

\* mutant: the catch block of the delete throws the error on
OnDeleteErrorRethrow(c, err) ==
    /\ pc' = [pc EXCEPT ![c] = "done"]
    /\ outcome' = [outcome EXCEPT ![c] = Thrown(err)]
    /\ UNCHANGED <<deletes, html>>

\* the catch block of the delete: logWarn only; then return {text: html}
OnDeleteError(c, err) ==
    /\ pc' = [pc EXCEPT ![c] = "done"]
    /\ outcome' = [outcome EXCEPT ![c] = Returned(html[c])]
    /\ UNCHANGED <<deletes, html>>

(* ------------------------------ actions -------------------------------- *)
\* history of the run, written by the actions only
MarkSettled(c, by) ==
    settledBy' = [settledBy EXCEPT ![c] =
                     IF promise[c] = "pending" /\ promise'[c] # "pending" THEN by ELSE @]

call == <<variant, now, unitName, startedAt>>
events == <<nEvents, preTerminal, nTerminal, firstPhase, firstName, firstSeen>>
reading == <<readResult, html, cleanup>>
deleting == <<deletes, delResult, units>>

\* the tool is called: the name is built from Date.now(), the create is issued
StartCall(c, t) ==
    /\ pc[c] = "idle"
    /\ c > 1 => pc[c - 1] # "idle"
    /\ t >= now
    /\ now' = t
    /\ startedAt' = [startedAt EXCEPT ![c] = t]
    /\ unitName' = [unitName EXCEPT ![c] = UnitNameOf(variant, t)]
    /\ podName' = [podName EXCEPT ![c] =
                      IF variant = "pod" THEN unitName'[c] ELSE EmptyName]
    /\ creates' = [creates EXCEPT ![c] = @ + 1]
    /\ pc' = [pc EXCEPT ![c] = "creating"]
    /\ UNCHANGED <<variant, requestRef, timeout, promise, reason, watch, settledBy,
                   createResult, aborts, reads, readName, outcome>>
    /\ UNCHANGED <<server, worker, events, reading, deleting>>

\* the scheduler accepts the create; the handler sets the timer and opens the watch
CreateOk(c) ==
    /\ pc[c] = "creating"
    /\ unitName[c] \notin units
    /\ units' = units \cup {unitName[c]}
    /\ createResult' = [createResult EXCEPT ![c] = "ok"]
    /\ OpenWatch(c)
    /\ UNCHANGED <<podName, requestRef, reason, settledBy, aborts, reads, readName,
                   deletes, delResult>>
    /\ UNCHANGED <<server, worker, call, events, reading>>

\* the scheduler rejects the create (a name that exists is always rejected)
CreateErrors == {"AlreadyExists", "Forbidden"}
CreateFail(c, err) ==
    /\ pc[c] = "creating"
    /\ err = "AlreadyExists" <=> unitName[c] \in units
    /\ createResult' = [createResult EXCEPT ![c] = err]
    /\ OnCreateError(c, err)
    /\ UNCHANGED <<podName, requestRef, reason, settledBy, aborts, reads, readName>>
    /\ UNCHANGED <<server, worker, call, events, reading, deleting>>

\* .then(req => { requestRef = req }): the watch request handle is delivered
WatchThen(c) ==
    /\ watch[c] \in {"connecting", "closed"}
    /\ ~requestRef[c]
    /\ requestRef' = [requestRef EXCEPT ![c] = TRUE]
    /\ watch' = [watch EXCEPT ![c] = IF @ = "connecting" THEN "open" ELSE @]
    /\ UNCHANGED <<pc, podName, timeout, promise, reason, settledBy, createResult,
                   creates, aborts, reads, readName, outcome>>
    /\ UNCHANGED <<server, worker, call, events, reading, deleting>>

\* .catch(reject): watchClient.watch() itself rejects, no request was made
WatchCatch(c, err) ==
    /\ watch[c] = "connecting"
    /\ ~requestRef[c]
    /\ watch' = [watch EXCEPT ![c] = "failed"]
    /\ Reject(c, err)
    /\ MarkSettled(c, "catch")
    /\ UNCHANGED <<podName, requestRef, timeout, createResult, creates, aborts>>
    /\ UNCHANGED <<server, worker, call, events, reading, deleting>>

\* mutant: phase Failed is reported by rejecting the promise
OnPhaseFailedRejects(c, phase, name) ==
    /\ podName' = [podName EXCEPT ![c] = IF variant = "job" THEN name ELSE @]
    /\ IF IsTerminal(phase)
       THEN /\ ClearTimeout(c)
            /\ AbortRequest(c)
            /\ IF phase = "Failed" THEN Reject(c, "PodFailed") ELSE Resolve(c)
       ELSE UNCHANGED <<timeout, aborts, watch, promise, reason, pc, reads,
                        readName, outcome>>

\* the watch event callback (type, pod): one event of a pod the filter matches
OnPhase(c, phase, name) ==
    /\ podName' = [podName EXCEPT ![c] = IF variant = "job" THEN name ELSE @]
    /\ IF IsTerminal(phase)
       THEN /\ ClearTimeout(c)
            /\ AbortRequest(c)
            /\ Resolve(c)
       ELSE UNCHANGED <<timeout, aborts, watch, promise, reason, pc, reads,
                        readName, outcome>>

\* the stream delivers an event; lines already buffered are still delivered
\* after the request was aborted
WatchEvent(c, phase, name) ==
    /\ watch[c] \in {"open", "aborted"}
    /\ nEvents < MaxEvents
    /\ nEvents' = nEvents + 1
    /\ name \in MatchedPods(variant, unitName[c])
    /\ preTerminal' = [preTerminal EXCEPT ![c] =
                          @ \/ (~IsTerminal(phase) /\ nTerminal[c] = 0)]
    /\ nTerminal' = [nTerminal EXCEPT ![c] = IF IsTerminal(phase) THEN @ + 1 ELSE @]
    /\ firstPhase' = [firstPhase EXCEPT ![c] =
                         IF IsTerminal(phase) /\ nTerminal[c] = 0 THEN phase ELSE @]
    /\ firstName' = [firstName EXCEPT ![c] =
                        IF IsTerminal(phase) /\ nTerminal[c] = 0 THEN name ELSE @]
    /\ firstSeen' = [firstSeen EXCEPT ![c] = IF @ = EmptyName THEN name ELSE @]
    /\ OnPhase(c, phase, name)
    /\ MarkSettled(c, "phase")
    /\ UNCHANGED <<requestRef, createResult, creates>>
    /\ UNCHANGED <<server, worker, call, reading, deleting>>

\* an event of any pod the watch filter of the call matches
DeliverEvent(c, phase) ==
    \E name \in MatchedPods(variant, unitName[c]) : WatchEvent(c, phase, name)

\* the watch done callback (err): anything but an 'aborted' error rejects
OnDone(c, err) ==
    IF err # "aborted"
    THEN /\ ClearTimeout(c)
         /\ Reject(c, err)
    ELSE UNCHANGED <<timeout, promise, reason, pc, reads, readName, outcome>>

\* the stream ends: with the abort error after an abort, else with a stream
\* error or with no error value ("null")
StreamErrors == {"WatchError", "null"}
StreamDone(c, err) ==
    /\ watch[c] \in {"connecting", "open", "aborted"}
    /\ err = "aborted" <=> watch[c] = "aborted"
    /\ watch' = [watch EXCEPT ![c] = "closed"]
    /\ OnDone(c, err)
    /\ MarkSettled(c, "done")
    /\ UNCHANGED <<podName, requestRef, createResult, creates, aborts>>
    /\ UNCHANGED <<server, worker, call, events, reading, deleting>>

\* mutant: the timeout callback aborts the request and forgets to reject
OnTimeoutAbortOnly(c) ==
    /\ AbortRequest(c)
    /\ UNCHANGED <<promise, reason, pc, reads, readName, outcome>>

\* mutant: the timeout callback resolves, so the handler goes on to the log read
OnTimeoutResolves(c) ==
    /\ AbortRequest(c)
    /\ IF promise[c] = "pending"
       THEN /\ promise' = [promise EXCEPT ![c] = "resolved"]
            /\ pc' = [pc EXCEPT ![c] = "reading"]
            /\ reads' = [reads EXCEPT ![c] = @ + 1]
            /\ readName' = [readName EXCEPT ![c] = podName[c]]
            /\ UNCHANGED <<reason, outcome>>
       ELSE UNCHANGED <<promise, reason, pc, reads, readName, outcome>>

\* the setTimeout callback: logWarn, requestRef?.abort(), reject(new Error('Timeout'))
OnTimeout(c) ==
    /\ AbortRequest(c)
    /\ Reject(c, "Timeout")

\* the 5 minute timer fires
TimerFire(c) ==
    /\ timeout[c] = "pending"
    /\ timeout' = [timeout EXCEPT ![c] = "fired"]
    /\ OnTimeout(c)
    /\ MarkSettled(c, "timer")
    /\ UNCHANGED <<podName, requestRef, createResult, creates>>
    /\ UNCHANGED <<server, worker, call, events, reading, deleting>>

\* the log read returns the captured output of the pod it named
ReadOk(c) ==
    /\ pc[c] = "reading"
    /\ readResult' = [readResult EXCEPT ![c] = "ok"]
    /\ html' = [html EXCEPT ![c] = CapturedOutput(readName[c])]
    /\ CleanupAndReturn(c)
    /\ UNCHANGED <<podName, requestRef, timeout, promise, reason, watch, settledBy,
                   createResult, creates, aborts, reads, readName, delResult, units>>
    /\ UNCHANGED <<server, worker, call, events>>

\* the log read fails
ReadErrors == {"NotFound", "ReadForbidden"}
ReadFail(c, err) ==
    /\ pc[c] = "reading"
    /\ readResult' = [readResult EXCEPT ![c] = err]
    /\ OnReadError(c, err)
    /\ UNCHANGED <<podName, requestRef, timeout, promise, reason, watch, settledBy,
                   createResult, creates, aborts, reads, readName, delResult, units>>
    /\ UNCHANGED <<server, worker, call, events>>

\* the delete succeeds: log, then return {content: [{type: 'text', text: html}]}
DeleteOk(c) ==
    /\ pc[c] = "deleting"
    /\ delResult' = [delResult EXCEPT ![c] = "ok"]
    /\ units' = units \ {podName[c]}
    /\ pc' = [pc EXCEPT ![c] = "done"]
    /\ outcome' = [outcome EXCEPT ![c] = Returned(html[c])]
    /\ UNCHANGED <<podName, requestRef, timeout, promise, reason, watch, settledBy,
                   createResult, creates, aborts, reads, readName, deletes>>
    /\ UNCHANGED <<server, worker, call, events, reading>>

\* the delete fails
DeleteErrors == {"DeleteError"}
DeleteFail(c, err) ==
    /\ pc[c] = "deleting"
    /\ delResult' = [delResult EXCEPT ![c] = err]
    /\ OnDeleteError(c, err)
    /\ UNCHANGED <<podName, requestRef, timeout, promise, reason, watch, settledBy,
                   createResult, creates, aborts, reads, readName, readResult,
                   cleanup, units>>
    /\ UNCHANGED <<server, worker, call, events>>

Next ==
    \/ \E c \in Calls, t \in 0..MaxClock : StartCall(c, t)
    \/ \E c \in Calls : CreateOk(c)
    \/ \E c \in Calls, err \in CreateErrors : CreateFail(c, err)
    \/ \E c \in Calls : WatchThen(c)
    \/ \E c \in Calls : WatchCatch(c, "WatchSetupError")
    \/ \E c \in Calls, phase \in Phases : DeliverEvent(c, phase)
    \/ \E c \in Calls, err \in StreamErrors \cup {"aborted"} : StreamDone(c, err)
    \/ \E c \in Calls : TimerFire(c)
    \/ \E c \in Calls : ReadOk(c)
    \/ \E c \in Calls, err \in ReadErrors : ReadFail(c, err)
    \/ \E c \in Calls : DeleteOk(c)
    \/ \E c \in Calls, err \in DeleteErrors : DeleteFail(c, err)

Spec == Init /\ [][Next]_vars

\* The event loop runs a timer that is due, and a request the handler awaits
\* (create, log read, delete) is answered or fails; nothing obliges the
\* cluster to send watch events or to end the stream.
Fairness ==
    \A c \in Calls :
        /\ WF_vars(TimerFire(c))
        /\ WF_vars(CreateOk(c) \/ \E err \in CreateErrors : CreateFail(c, err))
        /\ WF_vars(ReadOk(c) \/ \E err \in ReadErrors : ReadFail(c, err))
        /\ WF_vars(DeleteOk(c) \/ \E err \in DeleteErrors : DeleteFail(c, err))

FairSpec == Spec /\ Fairness

(* ------------------------- the session registry ------------------------ *)
fetching == <<variant, now, pc, unitName, podName, requestRef, timeout,
              promise, reason, watch, nEvents, preTerminal, nTerminal,
              firstPhase, firstName, firstSeen, settledBy, startedAt,
              createResult, creates, aborts, reads, readName, readResult,
              deletes, delResult, cleanup, html, outcome, units>>

\* transports[sessionId]: the transport registered under the key, else what
\* the empty object literal inherits under that name, else undefined
Lookup(key) ==
    IF key \in transports THEN "transport"
    ELSE IF key \in InheritedKeys THEN "inherited"
    ELSE "undefined"

\* a session's SSE response is open from GET /sse until its close event
IsOpen(id) == id \in Sessions /\ conn[id] \in {"connecting", "open", "failed"}

\* GET /sse: a transport with a fresh session id is registered, the close
\* handler is installed, and server.connect is awaited
SseOpen(id) ==
    /\ conn[id] = "none"
    /\ transports' = transports \cup {id}
    /\ conn' = [conn EXCEPT ![id] = "connecting"]
    /\ UNCHANGED <<post, worker, fetching>>

\* server.connect resolves
SseConnected(id) ==
    /\ conn[id] = "connecting"
    /\ conn' = [conn EXCEPT ![id] = "open"]
    /\ UNCHANGED <<transports, post, worker, fetching>>

\* server.connect rejects: the handler answers 500; the entry stays until
\* the close event of the response
SseConnectFails(id) ==
    /\ conn[id] = "connecting"
    /\ conn' = [conn EXCEPT ![id] = "failed"]
    /\ UNCHANGED <<transports, post, worker, fetching>>

\* the close event of the response
SseClose(id) ==
    /\ IsOpen(id)
    /\ transports' = transports \ {id}
    /\ conn' = [conn EXCEPT ![id] = "closed"]
    /\ UNCHANGED <<post, worker, fetching>>

\* if (!transport): the 400 answer, when the lookup gave a falsy value
NoTransport(key, found) ==
    IF found = "undefined"
    THEN [key |-> key, status |-> 400, to |-> "", wasOpen |-> IsOpen(key)]
    ELSE NoPost

\* POST /messages?sessionId=key: 400 when the lookup gives nothing; else
\* handlePostMessage is called on what was found: a transport takes the
\* message and answers 202 or throws, anything else has no such method and
\* the call throws; a throw is answered with 500
PostMessage(key, ok) ==
    LET found == Lookup(key)
        early == NoTransport(key, found)
    IN  /\ post' = IF early # NoPost THEN early
                   ELSE IF found = "transport"
                   THEN [key |-> key, status |-> IF ok THEN 202 ELSE 500,
                         to |-> key, wasOpen |-> IsOpen(key)]
                   ELSE [key |-> key, status |-> 500, to |-> "",
                         wasOpen |-> IsOpen(key)]
        /\ UNCHANGED <<transports, conn, worker, fetching>>

ServerNext ==
    \/ \E id \in Sessions : SseOpen(id)
    \/ \E id \in Sessions : SseConnected(id)
    \/ \E id \in Sessions : SseConnectFails(id)
    \/ \E id \in Sessions : SseClose(id)
    \/ \E key \in PostKeys, ok \in BOOLEAN : PostMessage(key, ok)

ServerSpec == Init /\ [][ServerNext]_vars

(* ------------------------- the rendering worker ------------------------ *)
\* process.exit(code)
Exit(w, code) ==
    /\ exitCode' = [exitCode EXCEPT ![w] = code]
    /\ wpc' = [wpc EXCEPT ![w] = "exited"]

\* !url
NoUrl(arg) == arg \in {NoArg, ""}

\* the catch block of the main function
OnCatchExitsZero(w, err) ==
    /\ raised' = [raised EXCEPT ![w] = err]
    /\ stderr' = [stderr EXCEPT ![w] = "Error fetching URL: " \o err]
    /\ Exit(w, 0)

OnCatch(w, err) ==
    /\ raised' = [raised EXCEPT ![w] = err]
    /\ stderr' = [stderr EXCEPT ![w] = "Error fetching URL: " \o err]
    /\ Exit(w, 1)

\* node fetcher.js [arg]
RunWorker(w, arg) ==
    /\ wpc[w] = "off"
    /\ argv' = [argv EXCEPT ![w] = arg]
    /\ wpc' = [wpc EXCEPT ![w] = "main"]
    /\ UNCHANGED <<browser, stdout, stderr, raised, exitCode, server, fetching>>

\* the argument check, then the call of fetchUrl up to puppeteer.launch
Main(w) ==
    /\ wpc[w] = "main"
    /\ IF NoUrl(argv[w])
       THEN /\ stderr' = [stderr EXCEPT ![w] = "No URL provided"]
            /\ Exit(w, 1)
       ELSE /\ wpc' = [wpc EXCEPT ![w] = "launch"]
            /\ UNCHANGED <<stderr, exitCode>>
    /\ UNCHANGED <<argv, browser, stdout, raised, server, fetching>>

\* an awaited step of fetchUrl that writes nothing: it resolves and the next
\* step is issued, or it rejects and the catch block runs
Step(w, at, next, ok, err) ==
    /\ wpc[w] = at
    /\ IF ok
       THEN /\ wpc' = [wpc EXCEPT ![w] = next]
            /\ UNCHANGED <<stderr, raised, exitCode>>
       ELSE OnCatch(w, err)

Launch(w, ok) ==
    /\ Step(w, "launch", "newPage", ok, "LaunchError")
    /\ browser' = [browser EXCEPT ![w] = IF ok THEN "open" ELSE @]
    /\ UNCHANGED <<argv, stdout, server, fetching>>

NewPage(w, ok) ==
    /\ Step(w, "newPage", "goto", ok, "NewPageError")
    /\ UNCHANGED <<argv, browser, stdout, server, fetching>>

Goto(w, ok) ==
    /\ Step(w, "goto", "content", ok, "NavigationError")
    /\ UNCHANGED <<argv, browser, stdout, server, fetching>>

\* page.content() resolves: console.log(content), then browser.close()
Content(w, ok, page) ==
    /\ Step(w, "content", "close", ok, "ContentError")
    /\ stdout' = [stdout EXCEPT ![w] = IF ok THEN page ELSE @]
    /\ UNCHANGED <<argv, browser, server, fetching>>

\* browser.close() resolves: fetchUrl returns and main exits with 0
Close(w, ok) ==
    /\ wpc[w] = "close"
    /\ IF ok
       THEN /\ browser' = [browser EXCEPT ![w] = "closed"]
            /\ Exit(w, 0)
            /\ UNCHANGED <<stderr, raised>>
       ELSE /\ OnCatch(w, "CloseError")
            /\ UNCHANGED browser
    /\ UNCHANGED <<argv, stdout, server, fetching>>

WorkerNext ==
    \/ \E w \in Workers, arg \in Args : RunWorker(w, arg)
    \/ \E w \in Workers : Main(w)
    \/ \E w \in Workers, ok \in BOOLEAN : Launch(w, ok)
    \/ \E w \in Workers, ok \in BOOLEAN : NewPage(w, ok)
    \/ \E w \in Workers, ok \in BOOLEAN : Goto(w, ok)
    \/ \E w \in Workers, ok \in BOOLEAN, page \in Pages : Content(w, ok, page)
    \/ \E w \in Workers, ok \in BOOLEAN : Close(w, ok)

WorkerSpec == Init /\ [][WorkerNext]_vars

(* ------------------------------- claims -------------------------------- *)
Started(c) == pc[c] # "idle"
Finished(c) == pc[c] = "done"
WatchingEnded(c) == promise[c] \in {"resolved", "rejected"}

\* C1 (as claimed): every call whose create request succeeded has issued the
\* delete request exactly once by the time it finishes, on every path (terminal
\* phase, timeout, stream error, log-read failure).
C1_DeleteOncePerCall ==
    \A c \in Calls :
        (Finished(c) /\ createResult[c] = "ok"
            /\ settledBy[c] \in {"phase", "timer", "done"}) => deletes[c] = 1

\* C2 (as claimed): when Watching has ended by a terminal-phase event, by the
\* deadline timeout or by a stream error, the abort of the watch request has
\* been invoked exactly once.
C2_AbortOncePerWatch ==
    \A c \in Calls :
        (WatchingEnded(c) /\ settledBy[c] \in {"phase", "timer", "done"})
            => aborts[c] = 1

\* C3: each call issues the create request exactly once; no path issues a
\* second create for the same call.
C3_CreateOnce ==
    \A c \in Calls :
        /\ creates[c] <= 1
        /\ Started(c) => creates[c] = 1

\* C3 witness: a call ended by a rejected create, having issued one create
C3_Witness ==
    \E c \in Calls :
        Finished(c) /\ createResult[c] \in CreateErrors /\ creates[c] = 1

\* C4: when the scheduler rejects the create, the call ends at once with that
\* error: no watch, no deadline timer, no log read, no delete.
C4_SubmissionErrorEndsCall ==
    \A c \in Calls :
        createResult[c] \in CreateErrors =>
            /\ Finished(c)
            /\ outcome[c] = Thrown(createResult[c])
            /\ watch[c] = "none" /\ promise[c] = "none" /\ timeout[c] = "none"
            /\ reads[c] = 0 /\ deletes[c] = 0 /\ ~cleanup[c]

\* C4 witness: a call whose create was refused has thrown that error
C4_Witness ==
    \E c \in Calls :
        createResult[c] = "Forbidden" /\ outcome[c] = Thrown("Forbidden")

\* C5 (as claimed): whenever the deadline timer fires and no event with phase
\* Succeeded or Failed was observed before, the call ends with the Timeout
\* outcome, which differs from the outcome after phase Failed (a returned text).
C5_TimerFiringMeansTimeout ==
    [][\A c \in Calls :
          (timeout[c] = "pending" /\ timeout'[c] = "fired" /\ nTerminal[c] = 0)
              => /\ outcome'[c] = Thrown("Timeout")
                 /\ outcome'[c].kind # "return"]_vars

\* C6: every call has exactly one outcome, a returned result or a thrown
\* error; once the watch promise is settled by the first of terminal event,
\* timer and stream error, no later callback changes the settlement, and an
\* outcome once produced never changes.
C6_OneOutcome ==
    /\ [](\A c \in Calls :
            /\ outcome[c].kind \in {"none", "return", "throw"}
            /\ outcome[c].kind # "none" <=> Finished(c)
            /\ promise[c] = "rejected" => outcome[c] = Thrown(reason[c])
            /\ promise[c] = "resolved" => outcome[c].kind # "throw")
    /\ [][\A c \in Calls :
            /\ WatchingEnded(c) =>
                  promise'[c] = promise[c] /\ reason'[c] = reason[c]
            /\ outcome[c].kind # "none" =>
                  outcome'[c] = outcome[c] /\ pc'[c] = "done"]_vars

\* C6 witness: a call that threw Timeout and received a terminal event later
C6_Witness ==
    \E c \in Calls :
        settledBy[c] = "timer" /\ outcome[c] = Thrown("Timeout") /\ nTerminal[c] >= 1

\* C7: when a terminal-phase event (Succeeded or Failed alike) ends Watching
\* and the log read succeeds, the call does not throw and returns the captured
\* output of the pod that event named.
C7_ReturnsCapturedOutput ==
    \A c \in Calls :
        settledBy[c] = "phase" =>
            /\ outcome[c].kind # "throw"
            /\ firstName[c] \in MatchedPods(variant, unitName[c])
            /\ (Finished(c) /\ readResult[c] = "ok") =>
                   outcome[c] = Returned(CapturedOutput(firstName[c]))

\* C7 witness: a non-terminal event, then Failed, and the output was returned
C7_Witness ==
    \E c \in Calls :
        /\ settledBy[c] = "phase" /\ firstPhase[c] = "Failed"
        /\ preTerminal[c] /\ nTerminal[c] = 1
        /\ readResult[c] = "ok"
        /\ outcome[c] = Returned(CapturedOutput(firstName[c]))

\* C8: when the log read fails, the call does not throw: the cleanup block is
\* reached (the pod variant issues its delete) and the call returns the text
\* "Error retrieving logs: " followed by the error.
C8_ReadErrorBecomesResult ==
    \A c \in Calls :
        readResult[c] \in ReadErrors =>
            /\ outcome[c].kind # "throw"
            /\ cleanup[c]
            /\ variant = "pod" => deletes[c] = 1
            /\ html[c] = ErrorText(readResult[c])
            /\ Finished(c) => outcome[c] = Returned(ErrorText(readResult[c]))

\* C8 witness: a call returned the error text of a failed log read
C8_Witness ==
    \E c \in Calls :
        /\ readResult[c] = "NotFound" /\ cleanup[c]
        /\ outcome[c] = Returned(ErrorText("NotFound"))

\* the text extraction determined: the captured output or the error text
ExtractedText(c) ==
    IF readResult[c] = "ok" THEN CapturedOutput(readName[c])
    ELSE ErrorText(readResult[c])

\* C9: a failed delete is not thrown to the caller and not retried, and the
\* call returns the text extraction determined, as after a successful delete.
C9_DeleteErrorSwallowed ==
    \A c \in Calls :
        /\ delResult[c] \in DeleteErrors =>
              /\ Finished(c)
              /\ deletes[c] = 1
              /\ outcome[c] = Returned(ExtractedText(c))
        /\ delResult[c] = "ok" => outcome[c] = Returned(ExtractedText(c))

\* C9 witness: a call whose delete failed returned the captured output
C9_Witness ==
    \E c \in Calls :
        /\ delResult[c] \in DeleteErrors /\ readResult[c] = "ok"
        /\ outcome[c] = Returned(CapturedOutput(readName[c]))

\* C10 (as claimed): any two calls, also two that start at the same clock
\* reading, submit units with distinct names.
C10_DistinctNames ==
    \A c, d \in Calls :
        (c # d /\ Started(c) /\ Started(d)) => unitName[c] # unitName[d]

\* C11 (as claimed): whenever a call has left Watching after a terminal event
\* or the timeout, its watch request has been aborted (or is closed), also when
\* the deadline fired before the request handle was delivered.
C11_AbortedBeforeLeavingWatching ==
    \A c \in Calls :
        settledBy[c] \in {"phase", "timer"} => watch[c] \in {"aborted", "closed"}

\* C12: every call that started eventually finishes (returns or throws): a
\* call that is Watching is released by a terminal event, by the end of the
\* stream or at the latest by the deadline timer, and a failed delete does not
\* keep it suspended.
C12_EveryCallFinishes ==
    \A c \in Calls : Started(c) ~> Finished(c)

\* C12 witness: a call released by the timer alone, and a call that finished
\* although its delete failed
C12_Witness ==
    \E c \in Calls :
        /\ Finished(c)
        /\ \/ settledBy[c] = "timer" /\ firstSeen[c] = EmptyName
           \/ delResult[c] \in DeleteErrors

\* C13 (as claimed): a second or later terminal-phase event triggers nothing:
\* no further abort, no timer change, no second log read or delete.
C13_OnlyFirstTerminalActs ==
    [][\A c \in Calls :
          (nTerminal[c] >= 1 /\ nTerminal'[c] = nTerminal[c] + 1)
              => /\ aborts'[c] = aborts[c]
                 /\ timeout'[c] = timeout[c]
                 /\ reads'[c] = reads[c]
                 /\ deletes'[c] = deletes[c]]_vars

\* C14 (as claimed): in the job variant the log read names the pod of the
\* first watch event of the call, whatever later events name.
C14_ReadsFirstObservedName ==
    \A c \in Calls :
        (variant = "job" /\ reads[c] >= 1) => readName[c] = firstSeen[c]

\* the stages of a call, in order
Rank(stage) ==
    CASE stage = "idle" -> 0
      [] stage = "creating" -> 1
      [] stage = "watching" -> 2
      [] stage = "reading" -> 3
      [] stage = "deleting" -> 4
      [] stage = "done" -> 5

\* C15: a call's stage only moves forward; once the log read is issued no
\* create is issued and no watch is opened, once the delete is issued no log
\* read is issued, and a log read is issued only after a terminal phase.
C15_ForwardOnly ==
    /\ [](\A c \in Calls :
            /\ reads[c] <= 1 /\ deletes[c] <= 1
            /\ reads[c] >= 1 => nTerminal[c] >= 1 /\ firstPhase[c] \in {"Succeeded", "Failed"}
            /\ deletes[c] >= 1 => reads[c] = 1)
    /\ [][\A c \in Calls :
            /\ Rank(pc'[c]) >= Rank(pc[c])
            /\ reads[c] >= 1 =>
                  /\ creates'[c] = creates[c]
                  /\ watch'[c] = "connecting" => watch[c] = "connecting"
            /\ deletes[c] >= 1 => reads'[c] = reads[c]]_vars

\* C15 witness: a call went through every stage to the end
C15_Witness ==
    \E c \in Calls :
        /\ Finished(c) /\ creates[c] = 1 /\ nTerminal[c] >= 1
        /\ reads[c] = 1 /\ deletes[c] = 1 /\ outcome[c].kind = "return"

\* the state a call keeps in the locals of its handler
PerCall(c) ==
    <<pc[c], podName[c], requestRef[c], timeout[c], promise[c], reason[c],
      watch[c], aborts[c], reads[c], readName[c], deletes[c], html[c], outcome[c]>>

\* C16: with two calls in progress under distinct names, a step of one call
\* (its event, timer, stream error, read or delete) leaves the other call's
\* state alone, removes at most its own unit from the cluster, and a call reads
\* the output of a pod of its own unit only.
C16_CallsIndependent ==
    /\ [](\A c, d \in Calls :
            (c # d /\ reads[c] >= 1 /\ unitName[c] # unitName[d]) =>
                /\ readName[c] \in MatchedPods(variant, unitName[c])
                /\ readName[c] \notin MatchedPods(variant, unitName[d]))
    /\ [][\A c, d \in Calls :
            (c # d /\ unitName[c] # unitName[d] /\ PerCall(c)' # PerCall(c)) =>
                /\ PerCall(d)' = PerCall(d)
                /\ units \ units' \subseteq {podName[c]}
                /\ unitName[d] \in units => unitName[d] \in units']_vars

\* C16 witness: one call timed out while the other, under another name, went
\* on to its own terminal event, log read and delete
C16_Witness ==
    \E c, d \in Calls :
        /\ c # d /\ unitName[c] # unitName[d]
        /\ settledBy[c] = "timer" /\ outcome[c] = Thrown("Timeout")
        /\ settledBy[d] = "phase" /\ delResult[d] = "ok"
        /\ outcome[d] = Returned(CapturedOutput(unitName[d]))

\* C17 (as claimed): when a call has finished, its deadline timer is no longer
\* pending: it has fired or has been cleared.
C17_NoTimerLeftPending ==
    \A c \in Calls : Finished(c) => timeout[c] # "pending"

\* C18 (as claimed): when the done callback fires with a stream error or with
\* no error value (the request was not aborted) before any terminal phase was
\* observed, the call ends by throwing that value, without log read or delete.
C18_StreamErrorIsThrown ==
    [][\A c \in Calls :
          (watch[c] \in {"connecting", "open"} /\ watch'[c] = "closed"
              /\ nTerminal[c] = 0)
              => /\ outcome'[c].kind = "throw"
                 /\ outcome'[c].err \in StreamErrors
                 /\ reads'[c] = 0 /\ deletes'[c] = 0]_vars

\* C19: the registry holds a transport for a session id exactly while that
\* session's SSE connection is open; a POST to /messages is handed to a
\* transport only if its sessionId belongs to a currently open connection,
\* and otherwise is answered with status 400 without being dispatched
C19_RegistryGatesPosts ==
    /\ \A id \in Sessions : id \in transports <=> IsOpen(id)
    /\ post # NoPost =>
          /\ post.to # "" => post.wasOpen /\ post.to = post.key
          /\ ~post.wasOpen => post.status = 400 /\ post.to = ""

\* C20: a worker exits with status 0 only after it has written the page
\* content to standard output, and exits with a nonzero status on a missing
\* URL argument, without having launched the browser, and on any error
\* raised while launching, navigating, capturing or closing
C20_ExitStatusTellsSuccess ==
    \A w \in Workers :
        /\ exitCode[w] = 0 =>
              stdout[w] \in Pages /\ raised[w] = NoOutput /\ ~NoUrl(argv[w])
        /\ raised[w] # NoOutput => wpc[w] = "exited" /\ exitCode[w] > 0
        /\ wpc[w] = "exited" /\ NoUrl(argv[w]) =>
              exitCode[w] > 0 /\ browser[w] = "none"

C20_Witness ==
    \E w, v \in Workers :
        /\ exitCode[w] = 0 /\ stdout[w] \in Pages
        /\ exitCode[v] = 1 /\ NoUrl(argv[v]) /\ browser[v] = "none"
====
